---- MODULE Spec2Model ----
(***************************************************************************)
(* Model of the asynchronous data-lifecycle subsystem of marapp-services:  *)
(*   - handleSNSMessage / handleSubscriptionResponse                       *)
(*       (src/src/middlewares/subscriber.ts)                               *)
(*   - checkWorkspaceRefs (src/unnamed/part_003)                           *)
(*   - s3StreamUpload, s3KeyExists, createLifecyclePolicy                  *)
(*       (src/unnamed/part_002)                                            *)
(***************************************************************************)
EXTENDS Integers, Sequences, FiniteSets, TLC

(***************************************************************************)
(* Bounds of the model.                                                    *)
(***************************************************************************)
\* longest Message field, counted in JSON tokens
MaxMsgLen == 5
\* longest refIds array handed to checkWorkspaceRefs
MaxRefs == 2
\* longest list of key prefixes handed to createLifecyclePolicy
MaxPrefixes == 2

(***************************************************************************)
(* JSON values and JSON.parse.                                             *)
(* A text is a sequence of tokens; a decoded value is a record             *)
(* [kind, s, ms]: a string has kind "str" and its characters in s, an      *)
(* object has kind "obj" and its members <<key, value>> in ms.             *)
(***************************************************************************)
Str(s) == [kind |-> "str", s |-> s, ms |-> <<>>]
Obj(ms) == [kind |-> "obj", s |-> "", ms |-> ms]
\* JavaScript's undefined, in the places where a decoded value may sit
Undef == [kind |-> "undefined", s |-> "", ms |-> <<>>]

\* the string literals a text can contain: token |-> the string it denotes
StringTokens == {"\"t1\""}
StringOf(tok) == IF tok = "\"t1\"" THEN "t1" ELSE ""
Tokens == {"{", "}", ":"} \cup StringTokens

ParseFail == [ok |-> FALSE, val |-> Undef, next |-> 0]

\* value := string | "{" "}" | "{" string ":" value "}"
\* (no token of the alphabet is a comma, so an object has at most one member)
RECURSIVE ParseValue(_, _)
ParseValue(toks, i) ==
  IF i > Len(toks) THEN ParseFail
  ELSE IF toks[i] \in StringTokens
    THEN [ok |-> TRUE, val |-> Str(StringOf(toks[i])), next |-> i + 1]
  ELSE IF toks[i] = "{"
    THEN IF i + 1 <= Len(toks) /\ toks[i + 1] = "}"
           THEN [ok |-> TRUE, val |-> Obj(<<>>), next |-> i + 2]
         ELSE IF i + 2 <= Len(toks) /\ toks[i + 1] \in StringTokens /\ toks[i + 2] = ":"
           THEN LET v == ParseValue(toks, i + 3)
                IN IF v.ok /\ v.next <= Len(toks) /\ toks[v.next] = "}"
                     THEN [ok |-> TRUE,
                           val |-> Obj(<< <<StringOf(toks[i + 1]), v.val>> >>),
                           next |-> v.next + 1]
                     ELSE ParseFail
         ELSE ParseFail
  ELSE ParseFail

\* JSON.parse(text): the whole text must be one value, or SyntaxError
JSONParse(toks) ==
  LET r == ParseValue(toks, 1)
  IN IF r.ok /\ r.next = Len(toks) + 1
       THEN [ok |-> TRUE, val |-> r.val]
       ELSE [ok |-> FALSE, val |-> Undef]

(***************************************************************************)
(* Errors and responses.                                                   *)
(***************************************************************************)
NoError == [name |-> "none", message |-> "", status |-> 0]
\* makeError('SubscriptionError', ExposedError): new SubscriptionError(msg, code)
SubscriptionError(message, status) ==
  [name |-> "SubscriptionError", message |-> message, status |-> status]
\* thrown by JSON.parse; carries no HTTP status
SyntaxError == [name |-> "SyntaxError", message |-> "Unexpected token", status |-> 0]
\* makeError-style DocumentError of ../../errors: new DocumentError(msg, code)
DocumentError(message, status) ==
  [name |-> "DocumentError", message |-> message, status |-> status]
\* a plain Error
PlainError(message) == [name |-> "Error", message |-> message, status |-> 0]

NoResponse == [sent |-> FALSE, status |-> 0, code |-> 0, success |-> FALSE]
\* res.status(statusCode).json({ code: statusCode, data: { success: true } })
SuccessResponse(statusCode) ==
  [sent |-> TRUE, status |-> statusCode, code |-> statusCode, success |-> TRUE]

(***************************************************************************)
(* Requests.                                                               *)
(***************************************************************************)
\* a header or body field that is not there
Missing == "undefined"
SNS_TOPIC_SUBSCRIPTION_ARN == "arn:aws:sns:result"

EventTypes == {"SubscriptionConfirmation", "Notification", "UnsubscribeConfirmation", Missing}
TopicArns == {SNS_TOPIC_SUBSCRIPTION_ARN, "arn:aws:sns:other", Missing}
BodyTypes == {"SubscriptionConfirmation", "Notification", "UnsubscribeConfirmation", Missing}
SubscribeURLs == {"https://sns/confirm", Missing}
UnsubscribeURLs == {"https://x", Missing}

RECURSIVE TextsOfLen(_)
TextsOfLen(n) ==
  IF n = 0 THEN {<<>>}
  ELSE {Append(t, k) : t \in TextsOfLen(n - 1), k \in Tokens}
\* the Message field: a text, or absent (JSON.parse(undefined) reads the text
\* "undefined", which is no JSON token)
Messages == UNION {TextsOfLen(n) : n \in 0..MaxMsgLen} \cup {<<Missing>>}

\* a falsy req.body (undefined, null, empty string)
NoBody == [falsy |-> TRUE, Type |-> Missing, SubscribeURL |-> Missing,
           Message |-> <<Missing>>, UnsubscribeURL |-> Missing]
Bodies ==
  {NoBody} \cup
  [falsy : {FALSE}, Type : BodyTypes, SubscribeURL : SubscribeURLs,
   Message : Messages, UnsubscribeURL : UnsubscribeURLs]

Requests == [eventType : EventTypes, topicArn : TopicArns, body : Bodies]
NoRequest == [eventType |-> Missing, topicArn |-> Missing, body |-> NoBody]

\* what axios.get can come back with: a response with a status, or a rejection
\* (no response at all, or a status the client's validateStatus refuses)
GetOutcomes ==
  [kind : {"resolved"}, status : {200, 204, 404, 500}] \cup
  [kind : {"rejected"}, status : {0, 404, 500}]
NoOutcome == [kind |-> "none", status |-> 0]

VARIABLES
  pc,         \* position of the handler: "idle", "awaitGet", "done"
  req,        \* the request being handled
  raised,     \* the error the handler rejected with (NoError when none)
  response,   \* the HTTP response the handler sent itself
  locals,     \* res.locals: set of [key, value]
  nextCalls,  \* number of calls of next()
  gets,       \* URLs of the outbound GETs issued
  getResult,  \* what the outbound GET came back with
  log         \* levels of the log entries written

snsVars == <<pc, req, raised, response, locals, nextCalls, gets, getResult, log>>

VARIABLES
  store,      \* the collection: id |-> [exists, organization]
  refPc,      \* "idle", or "returned" after a checkWorkspaceRefs call
  chkArgs,    \* arguments of the last checkWorkspaceRefs call
  chkResult,  \* its outcome: NoError (resolved) or the error thrown
  reads,      \* number of find() queries issued by the last call
  fetched     \* the documents the last find() returned

refVars == <<store, refPc, chkArgs, chkResult, reads, fetched>>

VARIABLES
  objects,      \* the object store: <<bucket, key>> |-> [exists, etag, metadata]
  uploads,      \* the s3StreamUpload calls in flight: uploader |-> [busy, config]
  s3Pc,         \* "idle", or "returned" after a call of the gateway came back
  s3Result,     \* the last call that came back: its outcome and what it did
  lastUploaded  \* <<bucket, key>> |-> what the last completed upload returned

s3Vars == <<objects, uploads, s3Pc, s3Result, lastUploaded>>

VARIABLES
  lifecycle,    \* bucket |-> the rules of its lifecycle configuration
  lcPc,         \* "idle", or "returned" after a createLifecyclePolicy call
  lcResult      \* the last createLifecyclePolicy call and its outcome

lcVars == <<lifecycle, lcPc, lcResult>>

VARIABLES
  refsOf,       \* id |-> the references persisted on that document
  wr            \* the outcome of the last document write: [phase, id]

wrVars == <<refsOf, wr>>

vars == <<pc, req, raised, response, locals, nextCalls, gets, getResult, log,
          store, refPc, chkArgs, chkResult, reads, fetched,
          objects, uploads, s3Pc, s3Result, lastUploaded,
          lifecycle, lcPc, lcResult,
          refsOf, wr>>

(***************************************************************************)
(* handleSNSMessage (src/src/middlewares/subscriber.ts).                   *)
(***************************************************************************)
\* the effects of a run of the handler up to its next suspension point
Quiet == [pc |-> "done", raised |-> NoError, response |-> NoResponse,
          locals |-> {}, nextCalls |-> 0, gets |-> <<>>, log |-> <<>>]

ErrEventType == SubscriptionError("Unhandled SNS event type", 400)
ErrTopicArn == SubscriptionError("Unrecognized SNS topic Arn", 400)
ErrDecode == SubscriptionError("Could not decode SNS message.", 400)
ErrConfirm == SubscriptionError("Failed to confirm SNS subscription.", 500)

\* mutant: the topic is checked before the message type
ValidationTopicFirst(r) ==
  IF r.topicArn # SNS_TOPIC_SUBSCRIPTION_ARN THEN ErrTopicArn
  ELSE IF r.eventType \notin {"SubscriptionConfirmation", "Notification"} THEN ErrEventType
  ELSE IF r.body.falsy THEN ErrDecode
  ELSE NoError

\* mutant: the body is checked before the topic
ValidationBodyFirst(r) ==
  IF r.eventType \notin {"SubscriptionConfirmation", "Notification"} THEN ErrEventType
  ELSE IF r.body.falsy THEN ErrDecode
  ELSE IF r.topicArn # SNS_TOPIC_SUBSCRIPTION_ARN THEN ErrTopicArn
  ELSE NoError

\* the three validations, in the order of the code
Validation(r) ==
  IF r.eventType \notin {"SubscriptionConfirmation", "Notification"} THEN ErrEventType
  ELSE IF r.topicArn # SNS_TOPIC_SUBSCRIPTION_ARN THEN ErrTopicArn
  ELSE IF r.body.falsy THEN ErrDecode
  ELSE NoError

\* mutant: the handler answers 200 itself before handing over
NotificationPathResponds(body) ==
  LET message == JSONParse(body.Message)
  IN IF ~message.ok
       THEN [Quiet EXCEPT !.raised = SyntaxError]
       ELSE [Quiet EXCEPT !.locals = {[key |-> "snsMessage", value |-> message.val]},
                          !.response = SuccessResponse(200),
                          !.nextCalls = 1]

\* messageType === 'Notification': decode Message, attach it, call next()
NotificationPath(body) ==
  LET message == JSONParse(body.Message)
  IN IF ~message.ok
       THEN [Quiet EXCEPT !.raised = SyntaxError]
       ELSE [Quiet EXCEPT !.locals = {[key |-> "snsMessage", value |-> message.val]},
                          !.nextCalls = 1]

\* messageType === 'SubscriptionConfirmation', up to the await of axios.get
SubscriptionPath(body) ==
  [Quiet EXCEPT !.pc = "awaitGet", !.gets = <<body.SubscribeURL>>]

\* mutant: the envelope is dispatched first and validated afterwards
handleSNSMessageLateValidation(r) ==
  LET eff == IF r.body.Type = "SubscriptionConfirmation" THEN SubscriptionPath(r.body)
             ELSE IF r.body.Type = "Notification" THEN NotificationPath(r.body)
             ELSE Quiet
  IN IF Validation(r) # NoError
       THEN [eff EXCEPT !.pc = "done", !.raised = Validation(r)]
       ELSE eff

\* the handler from its entry to its first suspension point or its end
handleSNSMessage(r) ==
  IF Validation(r) # NoError
    THEN [Quiet EXCEPT !.raised = Validation(r)]
  ELSE IF r.body.Type = "SubscriptionConfirmation" THEN SubscriptionPath(r.body)
  ELSE IF r.body.Type = "Notification" THEN NotificationPath(r.body)
  ELSE Quiet

\* handleSubscriptionResponse once the GET is back: what it throws and logs
handleSubscriptionResponse(o) ==
  IF o.kind = "resolved"
    THEN IF o.status = 200
           THEN [thrown |-> NoError, log |-> <<"debug">>]
           ELSE [thrown |-> ErrConfirm, log |-> <<"error">>]
    ELSE [thrown |-> NoError, log |-> <<"error">>]

\* mutant: the return is missing, control falls through to next()
ConfirmedFallsThrough(o) ==
  LET c == handleSubscriptionResponse(o)
  IN IF c.thrown # NoError
       THEN [Quiet EXCEPT !.raised = c.thrown, !.log = c.log]
       ELSE [Quiet EXCEPT !.response = SuccessResponse(200), !.log = c.log,
                          !.nextCalls = 1]

\* the handler after the await: rethrow, or answer 200
Confirmed(o) ==
  LET c == handleSubscriptionResponse(o)
  IN IF c.thrown # NoError
       THEN [Quiet EXCEPT !.raised = c.thrown, !.log = c.log]
       ELSE [Quiet EXCEPT !.response = SuccessResponse(200), !.log = c.log]

InitSNS ==
  /\ pc = "idle"
  /\ req = NoRequest
  /\ raised = NoError
  /\ response = NoResponse
  /\ locals = {}
  /\ nextCalls = 0
  /\ gets = <<>>
  /\ getResult = NoOutcome
  /\ log = <<>>

\* a request arrives and the handler runs to its first suspension point
Receive ==
  /\ pc = "idle"
  /\ \E r \in Requests :
       LET eff == handleSNSMessage(r)
       IN /\ req' = r
          /\ pc' = eff.pc
          /\ raised' = eff.raised
          /\ response' = eff.response
          /\ locals' = eff.locals
          /\ nextCalls' = eff.nextCalls
          /\ gets' = eff.gets
          /\ log' = eff.log
  /\ UNCHANGED <<getResult>>
  /\ UNCHANGED <<refVars, s3Vars, lcVars, wrVars>>

\* the outbound GET comes back and the handler runs to its end
GetReturns ==
  /\ pc = "awaitGet"
  /\ \E o \in GetOutcomes :
       LET eff == Confirmed(o)
       IN /\ getResult' = o
          /\ pc' = eff.pc
          /\ raised' = eff.raised
          /\ response' = eff.response
          /\ locals' = locals \cup eff.locals
          /\ nextCalls' = nextCalls + eff.nextCalls
          /\ gets' = gets \o eff.gets
          /\ log' = log \o eff.log
  /\ UNCHANGED <<req>>
  /\ UNCHANGED <<refVars, s3Vars, lcVars, wrVars>>

\* the request is over; the next one gets a fresh req and res
Finish ==
  /\ pc = "done"
  /\ pc' = "idle"
  /\ req' = NoRequest
  /\ raised' = NoError
  /\ response' = NoResponse
  /\ locals' = {}
  /\ nextCalls' = 0
  /\ gets' = <<>>
  /\ getResult' = NoOutcome
  /\ log' = <<>>
  /\ UNCHANGED <<refVars, s3Vars, lcVars, wrVars>>

NextSNS == Receive \/ GetReturns \/ Finish

(***************************************************************************)
(* checkWorkspaceRefs (src/unnamed/part_003).                              *)
(***************************************************************************)
Ids == {"d1", "d2", "d3"}
Orgs == {"org1", "org2"}
\* the organization field of a stored document: a tenant, or not set
StoredOrgs == Orgs \cup {Missing}
\* the organization argument: a tenant, the empty string, or undefined
OrgArgs == Orgs \cup {"", Missing}

NoDoc == [exists |-> FALSE, organization |-> Missing]

RECURSIVE SeqsOfLen(_)
SeqsOfLen(n) ==
  IF n = 0 THEN {<<>>}
  ELSE {Append(q, i) : q \in SeqsOfLen(n - 1), i \in Ids}
\* the refIds argument: an array of ids, or undefined
RefIdArgs ==
  [given : {TRUE}, ids : UNION {SeqsOfLen(n) : n \in 0..MaxRefs}] \cup
  {[given |-> FALSE, ids |-> <<>>]}

NoCall == [refIds |-> [given |-> FALSE, ids |-> <<>>], organization |-> Missing]

\* mutant: one result per requested id, an id without document giving a
\* result without organization
findWithMissing(st, ids) ==
  {[id |-> i, organization |-> st[i].organization] :
     i \in {j \in Ids : \E k \in 1..Len(ids) : ids[k] = j}}

\* model.find({ _id: { $in: refIds } }).select('organization'):
\* the stored documents whose id is in refIds, each once
find(st, ids) ==
  {[id |-> i, organization |-> st[i].organization] :
     i \in {j \in Ids : st[j].exists /\ \E k \in 1..Len(ids) : ids[k] = j}}

\* mutant: res.some instead of res.every
checkWorkspaceRefsSome(st, refIds, organization) ==
  IF organization \in {"", Missing}
    THEN [result |-> PlainError("Missing required parameter: organization"),
          reads |-> 0, fetched |-> {}]
  ELSE IF refIds.given /\ Len(refIds.ids) > 0
    THEN LET res == find(st, refIds.ids)
             isValid == \E r \in res : r.organization = organization
         IN [result |-> IF ~isValid
                          THEN DocumentError("Could not save document. Invalid references saved on document.", 400)
                          ELSE NoError,
             reads |-> 1, fetched |-> res]
  ELSE [result |-> NoError, reads |-> 0, fetched |-> {}]

\* mutant: the organization is only looked at once there are references
checkWorkspaceRefsLateOrgCheck(st, refIds, organization) ==
  IF refIds.given /\ Len(refIds.ids) > 0
    THEN IF organization \in {"", Missing}
           THEN [result |-> PlainError("Missing required parameter: organization"),
                 reads |-> 0, fetched |-> {}]
           ELSE LET res == find(st, refIds.ids)
                    isValid == \A r \in res : r.organization = organization
                IN [result |-> IF ~isValid
                                 THEN DocumentError("Could not save document. Invalid references saved on document.", 400)
                                 ELSE NoError,
                    reads |-> 1, fetched |-> res]
  ELSE [result |-> NoError, reads |-> 0, fetched |-> {}]

\* mutant: one query per referenced id instead of one batched query
checkWorkspaceRefsPerId(st, refIds, organization) ==
  IF organization \in {"", Missing}
    THEN [result |-> PlainError("Missing required parameter: organization"),
          reads |-> 0, fetched |-> {}]
  ELSE IF refIds.given /\ Len(refIds.ids) > 0
    THEN LET res == find(st, refIds.ids)
             isValid == \A r \in res : r.organization = organization
         IN [result |-> IF ~isValid
                          THEN DocumentError("Could not save document. Invalid references saved on document.", 400)
                          ELSE NoError,
             reads |-> Len(refIds.ids), fetched |-> res]
  ELSE [result |-> NoError, reads |-> 0, fetched |-> {}]

\* checkWorkspaceRefs(model, refIds, organization): the error thrown (NoError
\* when the promise resolves), the number of queries and what they returned
checkWorkspaceRefs(st, refIds, organization) ==
  IF organization \in {"", Missing}
    THEN [result |-> PlainError("Missing required parameter: organization"),
          reads |-> 0, fetched |-> {}]
  ELSE IF refIds.given /\ Len(refIds.ids) > 0
    THEN LET res == find(st, refIds.ids)
             isValid == \A r \in res : r.organization = organization
         IN [result |-> IF ~isValid
                          THEN DocumentError("Could not save document. Invalid references saved on document.", 400)
                          ELSE NoError,
             reads |-> 1, fetched |-> res]
  ELSE [result |-> NoError, reads |-> 0, fetched |-> {}]

InitRefs ==
  /\ store = [i \in Ids |-> NoDoc]
  /\ refPc = "idle"
  /\ chkArgs = NoCall
  /\ chkResult = NoError
  /\ reads = 0
  /\ fetched = {}

\* a document is created in the collection, tagged with its tenant
CreateDoc ==
  /\ \E i \in Ids, o \in StoredOrgs :
       /\ ~store[i].exists
       /\ store' = [store EXCEPT ![i] = [exists |-> TRUE, organization |-> o]]
  /\ UNCHANGED <<refPc, chkArgs, chkResult, reads, fetched>>
  /\ UNCHANGED <<snsVars, s3Vars, lcVars, wrVars>>

\* a document is deleted from the collection
DeleteDoc ==
  /\ \E i \in Ids :
       /\ store[i].exists
       /\ store' = [store EXCEPT ![i] = NoDoc]
  /\ UNCHANGED <<refPc, chkArgs, chkResult, reads, fetched>>
  /\ UNCHANGED <<snsVars, s3Vars, lcVars, wrVars>>

\* a caller runs checkWorkspaceRefs against the collection
CheckRefs ==
  /\ refPc = "idle"
  /\ \E refIds \in RefIdArgs, organization \in OrgArgs :
       LET out == checkWorkspaceRefs(store, refIds, organization)
       IN /\ chkArgs' = [refIds |-> refIds, organization |-> organization]
          /\ chkResult' = out.result
          /\ reads' = out.reads
          /\ fetched' = out.fetched
  /\ refPc' = "returned"
  /\ UNCHANGED <<store>>
  /\ UNCHANGED <<snsVars, s3Vars, lcVars, wrVars>>

\* the caller has taken the outcome
ReturnRefs ==
  /\ refPc = "returned"
  /\ refPc' = "idle"
  /\ chkArgs' = NoCall
  /\ chkResult' = NoError
  /\ reads' = 0
  /\ fetched' = {}
  /\ UNCHANGED <<store>>
  /\ UNCHANGED <<snsVars, s3Vars, lcVars, wrVars>>

NextRefs == CreateDoc \/ DeleteDoc \/ CheckRefs \/ ReturnRefs

(***************************************************************************)
(* Object store gateway: s3StreamUpload and s3KeyExists                    *)
(* (src/unnamed/part_002).                                                 *)
(***************************************************************************)
S3_ASSETS_BUCKET == "assets"
S3_ENDPOINT_URL == "https://s3.local"

Buckets == {S3_ASSETS_BUCKET, "other"}
\* the bucketName argument: a bucket, or left out
BucketArgs == {"other", Missing}
\* object keys, as their path segments: "a/x" and "b"
Keys == {<<"a", "x">>, <<"b">>}
\* what is uploaded: the bytes of the stream and the metadata argument
Payloads == {[content |-> "c1", metadata |-> Missing],
             [content |-> "c2", metadata |-> "m1"]}
Uploaders == {"u1", "u2"}

\* the entity tag the backend computes for a content
ETagOf(content) == IF content = "c1" THEN "etag-c1" ELSE "etag-c2"

NoObject == [exists |-> FALSE, etag |-> "", metadata |-> ""]

\* StorageEvent; an undefined result has defined = FALSE
NoEvent == [defined |-> FALSE, key |-> <<>>, bucket |-> "", storageUrl |-> <<>>,
            etag |-> "", metadata |-> Missing]

NoS3Error == [name |-> "none", message |-> "", detail |-> ""]
\* makeError('UploadError'): the message is a fixed text followed by err.message
UploadError(message, detail) ==
  [name |-> "UploadError", message |-> message, detail |-> detail]

\* what the backend answers: the response of a call that worked, or its error
BackendOk(key, bucket, etag, metadata) ==
  [ok |-> TRUE, code |-> "", message |-> "", Key |-> key, Bucket |-> bucket,
   ETag |-> etag, Metadata |-> metadata]
BackendErr(code, message) ==
  [ok |-> FALSE, code |-> code, message |-> message, Key |-> <<>>, Bucket |-> "",
   ETag |-> "", Metadata |-> ""]
NoBackend == BackendErr("none", "")
\* failures other than a missing object
BackendFailures == {BackendErr("AccessDenied", "Access Denied"),
                    BackendErr("NetworkingError", "socket hang up")}
ErrNotFound == BackendErr("NotFound", "null")

\* urljoin(S3_ENDPOINT_URL, bucket, key): the segments of the URL's path
getStorageUrl(bucket, key) == <<S3_ENDPOINT_URL, bucket>> \o key

\* the request built from the arguments; bucketName defaults to S3_ASSETS_BUCKET
\* and Metadata is set only when metadata is given
UploadConfig(keyPath, payload, bucketName) ==
  [Bucket |-> IF bucketName = Missing THEN S3_ASSETS_BUCKET ELSE bucketName,
   Key |-> keyPath,
   Body |-> payload.content,
   Metadata |-> payload.metadata,
   ACL |-> "public-read"]
HeadConfig(keyPath, bucketName) ==
  [Bucket |-> IF bucketName = Missing THEN S3_ASSETS_BUCKET ELSE bucketName,
   Key |-> keyPath]
NoConfig == [Bucket |-> "", Key |-> <<>>, Body |-> "", Metadata |-> Missing, ACL |-> ""]

\* the backend stores the object of a put that worked ...
BackendPut(objs, config) ==
  [objs EXCEPT ![<<config.Bucket, config.Key>>] =
     [exists |-> TRUE, etag |-> ETagOf(config.Body),
      metadata |-> IF config.Metadata = Missing THEN "{}" ELSE config.Metadata]]
\* ... and answers with its key, bucket and entity tag, or fails
PutOutcomes(config) ==
  {BackendOk(config.Key, config.Bucket, ETagOf(config.Body), "")} \cup BackendFailures
\* a head answers with what is stored, with NotFound when nothing is, or fails
HeadOutcomes(objs, config) ==
  LET o == objs[<<config.Bucket, config.Key>>]
  IN (IF o.exists
        THEN {BackendOk(config.Key, config.Bucket, o.etag, o.metadata)}
        ELSE {ErrNotFound})
     \cup BackendFailures

NoS3Result == [op |-> "none", config |-> NoConfig, backend |-> NoBackend,
               thrown |-> NoS3Error, value |-> NoEvent, log |-> <<>>, calls |-> 0]

\* mutant: a failed upload is tried a second time
s3StreamUploadRetries(config, out) ==
  IF out.ok
    THEN [op |-> "s3StreamUpload", config |-> config, backend |-> out,
          thrown |-> NoS3Error,
          value |-> [defined |-> TRUE, key |-> out.Key, bucket |-> out.Bucket,
                     storageUrl |-> getStorageUrl(out.Bucket, out.Key),
                     etag |-> out.ETag, metadata |-> Missing],
          log |-> <<"debug">>, calls |-> 1]
    ELSE [op |-> "s3StreamUpload", config |-> config, backend |-> out,
          thrown |-> UploadError("Failed to upload file to S3.", out.message),
          value |-> NoEvent,
          log |-> <<"error", "error">>, calls |-> 2]

\* s3StreamUpload once s3.upload(config).promise() has settled with out
s3StreamUpload(config, out) ==
  IF out.ok
    THEN [op |-> "s3StreamUpload", config |-> config, backend |-> out,
          thrown |-> NoS3Error,
          value |-> [defined |-> TRUE, key |-> out.Key, bucket |-> out.Bucket,
                     storageUrl |-> getStorageUrl(out.Bucket, out.Key),
                     etag |-> out.ETag, metadata |-> Missing],
          log |-> <<"debug">>, calls |-> 1]
    ELSE [op |-> "s3StreamUpload", config |-> config, backend |-> out,
          thrown |-> UploadError("Failed to upload file to S3.", out.message),
          value |-> NoEvent,
          log |-> <<"error">>, calls |-> 1]

\* mutant: a missing object is an error like any other
s3KeyExistsThrowsAll(config, out) ==
  IF out.ok
    THEN [op |-> "s3KeyExists", config |-> config, backend |-> out,
          thrown |-> NoS3Error,
          value |-> [defined |-> TRUE, key |-> config.Key, bucket |-> config.Bucket,
                     storageUrl |-> getStorageUrl(config.Bucket, config.Key),
                     etag |-> out.ETag, metadata |-> out.Metadata],
          log |-> <<"debug">>, calls |-> 1]
    ELSE [op |-> "s3KeyExists", config |-> config, backend |-> out,
          thrown |-> UploadError("Failed to request file meta from S3.", out.message),
          value |-> NoEvent,
          log |-> <<"error">>, calls |-> 1]

\* mutant: the URL is built from the key alone
s3KeyExistsUrlWithoutBucket(config, out) ==
  IF out.ok
    THEN [op |-> "s3KeyExists", config |-> config, backend |-> out,
          thrown |-> NoS3Error,
          value |-> [defined |-> TRUE, key |-> config.Key, bucket |-> config.Bucket,
                     storageUrl |-> <<S3_ENDPOINT_URL>> \o config.Key,
                     etag |-> out.ETag, metadata |-> out.Metadata],
          log |-> <<"debug">>, calls |-> 1]
    ELSE [op |-> "s3KeyExists", config |-> config, backend |-> out,
          thrown |-> IF out.code # "NotFound"
                       THEN UploadError("Failed to request file meta from S3.", out.message)
                       ELSE NoS3Error,
          value |-> NoEvent,
          log |-> <<"error">>, calls |-> 1]

\* s3KeyExists once s3.headObject(config).promise() has settled with out
s3KeyExists(config, out) ==
  IF out.ok
    THEN [op |-> "s3KeyExists", config |-> config, backend |-> out,
          thrown |-> NoS3Error,
          value |-> [defined |-> TRUE, key |-> config.Key, bucket |-> config.Bucket,
                     storageUrl |-> getStorageUrl(config.Bucket, config.Key),
                     etag |-> out.ETag, metadata |-> out.Metadata],
          log |-> <<"debug">>, calls |-> 1]
    ELSE [op |-> "s3KeyExists", config |-> config, backend |-> out,
          thrown |-> IF out.code # "NotFound"
                       THEN UploadError("Failed to request file meta from S3.", out.message)
                       ELSE NoS3Error,
          value |-> NoEvent,
          log |-> <<"error">>, calls |-> 1]

InitS3 ==
  /\ objects = [bk \in Buckets \X Keys |-> NoObject]
  /\ uploads = [u \in Uploaders |-> [busy |-> FALSE, config |-> NoConfig]]
  /\ s3Pc = "idle"
  /\ s3Result = NoS3Result
  /\ lastUploaded = [bk \in Buckets \X Keys |-> NoEvent]

\* a caller starts s3StreamUpload: the request is built and handed to the backend
StartUpload ==
  /\ \E u \in Uploaders, keyPath \in Keys, payload \in Payloads, bucketName \in BucketArgs :
       /\ ~uploads[u].busy
       /\ uploads' = [uploads EXCEPT ![u] =
                        [busy |-> TRUE, config |-> UploadConfig(keyPath, payload, bucketName)]]
  /\ UNCHANGED <<objects, s3Pc, s3Result, lastUploaded>>
  /\ UNCHANGED <<snsVars, refVars, lcVars, wrVars>>

\* the backend settles an upload in flight and s3StreamUpload comes back
FinishUpload ==
  /\ s3Pc = "idle"
  /\ \E u \in Uploaders :
       /\ uploads[u].busy
       /\ \E out \in PutOutcomes(uploads[u].config) :
            LET config == uploads[u].config
                res == s3StreamUpload(config, out)
            IN /\ objects' = IF out.ok THEN BackendPut(objects, config) ELSE objects
               /\ s3Result' = res
               /\ lastUploaded' = IF res.value.defined
                                    THEN [lastUploaded EXCEPT ![<<config.Bucket, config.Key>>] = res.value]
                                    ELSE lastUploaded
       /\ uploads' = [uploads EXCEPT ![u] = [busy |-> FALSE, config |-> NoConfig]]
  /\ s3Pc' = "returned"
  /\ UNCHANGED <<snsVars, refVars, lcVars, wrVars>>

\* a caller runs s3KeyExists
Probe ==
  /\ s3Pc = "idle"
  /\ \E keyPath \in Keys, bucketName \in BucketArgs :
       LET config == [NoConfig EXCEPT !.Bucket = HeadConfig(keyPath, bucketName).Bucket,
                                      !.Key = HeadConfig(keyPath, bucketName).Key]
       IN \E out \in HeadOutcomes(objects, config) :
            s3Result' = s3KeyExists(config, out)
  /\ s3Pc' = "returned"
  /\ UNCHANGED <<objects, uploads, lastUploaded>>
  /\ UNCHANGED <<snsVars, refVars, lcVars, wrVars>>

\* the caller has taken the outcome
ReturnS3 ==
  /\ s3Pc = "returned"
  /\ s3Pc' = "idle"
  /\ s3Result' = NoS3Result
  /\ UNCHANGED <<objects, uploads, lastUploaded>>
  /\ UNCHANGED <<snsVars, refVars, lcVars, wrVars>>

NextS3 == StartUpload \/ FinishUpload \/ Probe \/ ReturnS3

(***************************************************************************)
(* Object store gateway: createLifecyclePolicy (src/unnamed/part_002).     *)
(***************************************************************************)
\* the members a prefix list can have: strings, or the number 7
PrefixItems == {[isString |-> TRUE, v |-> "a/"], [isString |-> TRUE, v |-> "b/"],
                [isString |-> FALSE, v |-> "7"]}
RECURSIVE ItemsOfLen(_)
ItemsOfLen(n) ==
  IF n = 0 THEN {<<>>}
  ELSE {Append(q, i) : q \in ItemsOfLen(n - 1), i \in PrefixItems}
\* the objectKeyPrefix argument: a string, an array, a number or undefined
PrefixArgs ==
  [kind : {"string"}, s : {"a/", "b/"}, items : {<<>>}] \cup
  [kind : {"array"}, s : {""}, items : UNION {ItemsOfLen(n) : n \in 0..MaxPrefixes}] \cup
  [kind : {"number", "undefined"}, s : {""}, items : {<<>>}]
\* the expDaysTTL argument: a number of days, or left out
DaysArgs == {[given |-> FALSE, days |-> 0], [given |-> TRUE, days |-> 1],
             [given |-> TRUE, days |-> 7]}

NoParams == [Bucket |-> "", Rules |-> <<>>]
NoLcResult == [prefix |-> [kind |-> "undefined", s |-> "", items |-> <<>>],
               bucket |-> Missing, days |-> [given |-> FALSE, days |-> 0],
               backend |-> NoBackend, thrown |-> NoS3Error, returned |-> "none",
               params |-> NoParams, calls |-> 0, log |-> <<>>]

\* makeError('S3Error')
S3Error(message) == [name |-> "S3Error", message |-> message, detail |-> ""]

\* lodash isString / isArray on the argument
isString(x) == x.kind = "string"
isArray(x) == x.kind = "array"

\* one expiration rule per prefix
LifecycleRules(keyPrefixes, expDaysTTL) ==
  [i \in 1..Len(keyPrefixes) |->
     [Expiration |-> [Days |-> expDaysTTL],
      Filter |-> [Prefix |-> keyPrefixes[i]],
      Status |-> "Enabled"]]

\* putBucketLifecycleConfiguration replaces the bucket's configuration, or fails
LifecycleOutcomes == {BackendOk(<<>>, "", "", "")} \cup BackendFailures
BackendPutLifecycle(lc, params) == [lc EXCEPT ![params.Bucket] = params.Rules]

\* mutant: the members of an array are not looked at
createLifecyclePolicyAnyArray(objectKeyPrefix, bucketName, expDaysTTL, out) ==
  LET base == [NoLcResult EXCEPT !.prefix = objectKeyPrefix, !.bucket = bucketName,
                                 !.days = expDaysTTL]
  IN IF ~(isString(objectKeyPrefix) \/ isArray(objectKeyPrefix))
       THEN [base EXCEPT !.thrown = S3Error("Unsupported object key prefix format.")]
       ELSE LET keyPrefixes == IF isString(objectKeyPrefix)
                                 THEN <<objectKeyPrefix.s>>
                                 ELSE [i \in 1..Len(objectKeyPrefix.items) |-> objectKeyPrefix.items[i].v]
                params == [Bucket |-> IF bucketName = Missing THEN S3_ASSETS_BUCKET ELSE bucketName,
                           Rules |-> LifecycleRules(keyPrefixes,
                                       IF expDaysTTL.given THEN expDaysTTL.days ELSE 1)]
            IN [base EXCEPT !.backend = out, !.params = params, !.calls = 1,
                            !.returned = IF out.ok THEN "true" ELSE "false",
                            !.log = IF out.ok THEN <<"debug", "debug">> ELSE <<"debug", "error">>]

\* mutant: only the first prefix gets a rule
createLifecyclePolicyFirstOnly(objectKeyPrefix, bucketName, expDaysTTL, out) ==
  LET base == [NoLcResult EXCEPT !.prefix = objectKeyPrefix, !.bucket = bucketName,
                                 !.days = expDaysTTL]
  IN IF ~(isString(objectKeyPrefix)
            \/ (isArray(objectKeyPrefix)
                  /\ \A i \in 1..Len(objectKeyPrefix.items) : objectKeyPrefix.items[i].isString))
       THEN [base EXCEPT !.thrown = S3Error("Unsupported object key prefix format.")]
       ELSE LET keyPrefixes == IF isString(objectKeyPrefix)
                                 THEN <<objectKeyPrefix.s>>
                                 ELSE [i \in 1..Len(objectKeyPrefix.items) |-> objectKeyPrefix.items[i].v]
                params == [Bucket |-> IF bucketName = Missing THEN S3_ASSETS_BUCKET ELSE bucketName,
                           Rules |-> LifecycleRules(IF keyPrefixes = <<>> THEN <<>> ELSE <<keyPrefixes[1]>>,
                                       IF expDaysTTL.given THEN expDaysTTL.days ELSE 1)]
            IN [base EXCEPT !.backend = out, !.params = params, !.calls = 1,
                            !.returned = IF out.ok THEN "true" ELSE "false",
                            !.log = IF out.ok THEN <<"debug", "debug">> ELSE <<"debug", "error">>]

\* mutant: a backend failure is thrown instead of returned
createLifecyclePolicyRethrows(objectKeyPrefix, bucketName, expDaysTTL, out) ==
  LET base == [NoLcResult EXCEPT !.prefix = objectKeyPrefix, !.bucket = bucketName,
                                 !.days = expDaysTTL]
  IN IF ~(isString(objectKeyPrefix)
            \/ (isArray(objectKeyPrefix)
                  /\ \A i \in 1..Len(objectKeyPrefix.items) : objectKeyPrefix.items[i].isString))
       THEN [base EXCEPT !.thrown = S3Error("Unsupported object key prefix format.")]
       ELSE LET keyPrefixes == IF isString(objectKeyPrefix)
                                 THEN <<objectKeyPrefix.s>>
                                 ELSE [i \in 1..Len(objectKeyPrefix.items) |-> objectKeyPrefix.items[i].v]
                params == [Bucket |-> IF bucketName = Missing THEN S3_ASSETS_BUCKET ELSE bucketName,
                           Rules |-> LifecycleRules(keyPrefixes,
                                       IF expDaysTTL.given THEN expDaysTTL.days ELSE 1)]
            IN [base EXCEPT !.backend = out, !.params = params, !.calls = 1,
                            !.returned = IF out.ok THEN "true" ELSE "none",
                            !.thrown = IF out.ok THEN NoS3Error ELSE S3Error(out.message),
                            !.log = IF out.ok THEN <<"debug", "debug">> ELSE <<"debug", "error">>]

\* createLifecyclePolicy, with out what putBucketLifecycleConfiguration settles
\* with when it is called: the error thrown, the value returned, the request
\* sent, the number of backend calls and the log levels written
createLifecyclePolicy(objectKeyPrefix, bucketName, expDaysTTL, out) ==
  LET base == [NoLcResult EXCEPT !.prefix = objectKeyPrefix, !.bucket = bucketName,
                                 !.days = expDaysTTL]
  IN IF ~(isString(objectKeyPrefix)
            \/ (isArray(objectKeyPrefix)
                  /\ \A i \in 1..Len(objectKeyPrefix.items) : objectKeyPrefix.items[i].isString))
       THEN [base EXCEPT !.thrown = S3Error("Unsupported object key prefix format.")]
       ELSE LET keyPrefixes == IF isString(objectKeyPrefix)
                                 THEN <<objectKeyPrefix.s>>
                                 ELSE [i \in 1..Len(objectKeyPrefix.items) |-> objectKeyPrefix.items[i].v]
                params == [Bucket |-> IF bucketName = Missing THEN S3_ASSETS_BUCKET ELSE bucketName,
                           Rules |-> LifecycleRules(keyPrefixes,
                                       IF expDaysTTL.given THEN expDaysTTL.days ELSE 1)]
            IN [base EXCEPT !.backend = out, !.params = params, !.calls = 1,
                            !.returned = IF out.ok THEN "true" ELSE "false",
                            !.log = IF out.ok THEN <<"debug", "debug">> ELSE <<"debug", "error">>]

InitLC ==
  /\ lifecycle = [b \in Buckets |-> <<>>]
  /\ lcPc = "idle"
  /\ lcResult = NoLcResult

\* a caller runs createLifecyclePolicy
ApplyPolicy ==
  /\ lcPc = "idle"
  /\ \E objectKeyPrefix \in PrefixArgs, bucketName \in BucketArgs,
        expDaysTTL \in DaysArgs, out \in LifecycleOutcomes :
       LET res == createLifecyclePolicy(objectKeyPrefix, bucketName, expDaysTTL, out)
       IN /\ lcResult' = res
          /\ lifecycle' = IF res.calls > 0 /\ res.backend.ok
                            THEN BackendPutLifecycle(lifecycle, res.params)
                            ELSE lifecycle
  /\ lcPc' = "returned"
  /\ UNCHANGED <<snsVars, refVars, s3Vars, wrVars>>

\* the caller has taken the outcome
ReturnPolicy ==
  /\ lcPc = "returned"
  /\ lcPc' = "idle"
  /\ lcResult' = NoLcResult
  /\ UNCHANGED <<lifecycle>>
  /\ UNCHANGED <<snsVars, refVars, s3Vars, wrVars>>

NextLC == ApplyPolicy \/ ReturnPolicy

(***************************************************************************)
(* The write path of a document: checkWorkspaceRefs runs as a guard, and   *)
(* the document is persisted only when it has passed.                      *)
(***************************************************************************)
\* no write yet, or the outcome of the last one
WriteIs(phase, id) == [phase |-> phase, id |-> id]

\* the ids a refIds argument names
RefSet(refIds) == {refIds.ids[k] : k \in 1..Len(refIds.ids)}

InitWrites ==
  /\ refsOf = [i \in Ids |-> {}]
  /\ wr = WriteIs("idle", "")

\* a document (new, or existing and keeping its tenant) is saved with a list
\* of references: the guard runs first, a failing guard ends the write with
\* nothing persisted, a passing one lets the document and references through
GuardedWrite ==
  \E i \in Ids, organization \in OrgArgs, refIds \in RefIdArgs :
    /\ store[i].exists => store[i].organization = organization
    /\ IF checkWorkspaceRefs(store, refIds, organization).result = NoError
         THEN /\ store' = [store EXCEPT
                             ![i] = [exists |-> TRUE, organization |-> organization]]
              /\ refsOf' = [refsOf EXCEPT ![i] = RefSet(refIds)]
              /\ wr' = WriteIs("persisted", i)
         ELSE /\ wr' = WriteIs("rejected", i)
              /\ UNCHANGED <<store, refsOf>>
    /\ UNCHANGED <<refPc, chkArgs, chkResult, reads, fetched>>
    /\ UNCHANGED <<snsVars, s3Vars, lcVars>>

NextWrites == CreateDoc \/ GuardedWrite

Init == InitSNS /\ InitRefs /\ InitS3 /\ InitLC /\ InitWrites

SpecSNS == Init /\ [][NextSNS]_vars
SpecRefs == Init /\ [][NextRefs]_vars
SpecS3 == Init /\ [][NextS3]_vars
SpecLC == Init /\ [][NextLC]_vars
SpecWrites == Init /\ [][NextWrites]_vars

(***************************************************************************)
(* Properties of handleSNSMessage.                                         *)
(***************************************************************************)
SupportedHeader == req.eventType \in {"SubscriptionConfirmation", "Notification"}
TrustedTopic == req.topicArn = SNS_TOPIC_SUBSCRIPTION_ARN
Handling == pc # "idle"
Is400(e, message) ==
  e.name = "SubscriptionError" /\ e.status = 400 /\ e.message = message
NoSideEffect ==
  gets = <<>> /\ locals = {} /\ nextCalls = 0 /\ ~response.sent
OnHandshakePath ==
  Handling /\ SupportedHeader /\ TrustedTopic /\ ~req.body.falsy
    /\ req.body.Type = "SubscriptionConfirmation"
OnNotificationPath ==
  Handling /\ SupportedHeader /\ TrustedTopic /\ ~req.body.falsy
    /\ req.body.Type = "Notification"
GetWas200 == getResult = [kind |-> "resolved", status |-> 200]

\* C1 (as stated): every request whose topic header differs from the trusted
\* topic is rejected with the untrusted-topic error (400 'Unrecognized SNS
\* topic Arn'), whatever its message-type header and body.
C1_AsStated ==
  (Handling /\ ~TrustedTopic) => Is400(raised, "Unrecognized SNS topic Arn")

\* C1 (amended): every request with a supported message-type header whose
\* topic header differs from the trusted topic is rejected with the
\* untrusted-topic error (400), whatever its body, and nothing else happens.
C1_UntrustedTopic ==
  (Handling /\ SupportedHeader /\ ~TrustedTopic)
    => /\ pc = "done"
       /\ Is400(raised, "Unrecognized SNS topic Arn")
       /\ NoSideEffect

C1_Witness ==
  /\ pc = "done"
  /\ req.eventType = "SubscriptionConfirmation"
  /\ req.topicArn = "arn:aws:sns:other"
  /\ req.body.falsy
  /\ Is400(raised, "Unrecognized SNS topic Arn")

\* C2: on the handshake path the success acknowledgment is sent only if the
\* confirmation GET returned 200; for every other outcome of the GET (another
\* status, or a failure without response) the handler fails with a
\* SubscriptionError of status 500 and sends no success acknowledgment.
C2_AckOnlyOn200 ==
  (OnHandshakePath /\ pc = "done")
    => /\ (response.sent => GetWas200)
       /\ (~GetWas200 => /\ raised.name = "SubscriptionError"
                         /\ raised.status = 500
                         /\ ~response.sent)

\* C3: a request on the handshake path (body Type = SubscriptionConfirmation)
\* never calls next(), whether the GET is pending, succeeded, returned
\* another status or failed.
C3_HandshakeNeverNext ==
  OnHandshakePath => nextCalls = 0

C3_Witness ==
  /\ OnHandshakePath
  /\ pc = "done"
  /\ GetWas200
  /\ response.sent
  /\ nextCalls = 0

\* C4: a notification envelope with a supported header, the trusted topic and
\* a Message holding valid JSON gets the decoded payload attached to
\* res.locals.snsMessage, next() called exactly once, and no response sent
\* by the handler; the text {"t1":"t1"} decodes to the object with that member.
C4_NotificationForwarded ==
  (OnNotificationPath /\ JSONParse(req.body.Message).ok)
    => /\ pc = "done"
       /\ raised = NoError
       /\ locals = {[key |-> "snsMessage", value |-> JSONParse(req.body.Message).val]}
       /\ nextCalls = 1
       /\ ~response.sent
       /\ gets = <<>>
       /\ (req.body.Message = <<"{", "\"t1\"", ":", "\"t1\"", "}">>
             => locals = {[key |-> "snsMessage",
                           value |-> Obj(<< <<"t1", Str("t1")>> >>)]})

C4_Witness ==
  /\ OnNotificationPath
  /\ req.body.Message = <<"{", "\"t1\"", ":", "\"t1\"", "}">>
  /\ req.body.UnsubscribeURL = "https://x"
  /\ nextCalls = 1
  /\ locals = {[key |-> "snsMessage", value |-> Obj(<< <<"t1", Str("t1")>> >>)]}

\* C5: on the notification path, when the envelope carries an UnsubscribeURL,
\* that URL is in res.locals together with the decoded payload when next()
\* is called.
C5_UnsubscribeURLAttached ==
  (OnNotificationPath /\ nextCalls > 0 /\ req.body.UnsubscribeURL # Missing)
    => \E e \in locals : e.value = Str(req.body.UnsubscribeURL)

\* C6: every request whose message-type header is neither
\* SubscriptionConfirmation nor Notification (a missing header included)
\* fails with the unsupported-type error, status 400, whatever its topic
\* and body: the type is checked before both.
C6_UnsupportedType ==
  (Handling /\ ~SupportedHeader)
    => /\ pc = "done"
       /\ Is400(raised, "Unhandled SNS event type")

C6_Witness ==
  /\ pc = "done"
  /\ req.eventType = Missing
  /\ req.topicArn = "arn:aws:sns:other"
  /\ req.body.falsy
  /\ Is400(raised, "Unhandled SNS event type")

\* C7: every request that passes the type and topic checks but has an absent
\* body, or is a notification whose Message is not decodable JSON, fails with
\* the malformed-envelope error, status 400.
C7_MalformedIs400 ==
  (Handling /\ SupportedHeader /\ TrustedTopic
     /\ (req.body.falsy
           \/ (req.body.Type = "Notification" /\ ~JSONParse(req.body.Message).ok)))
    => /\ raised.name = "SubscriptionError"
       /\ raised.status = 400

\* C8: whenever one of the three validations (message type, topic, body
\* presence) fails, the request is rejected with a 400 and has had no side
\* effect: no GET, nothing in res.locals, no next(), no response.
C8_ValidationFailureNoEffect ==
  (Handling /\ (~SupportedHeader \/ ~TrustedTopic \/ req.body.falsy))
    => /\ pc = "done"
       /\ raised.name = "SubscriptionError"
       /\ raised.status = 400
       /\ NoSideEffect

C8_Witness ==
  /\ pc = "done"
  /\ SupportedHeader
  /\ ~TrustedTopic
  /\ ~req.body.falsy
  /\ req.body.Type = "Notification"
  /\ JSONParse(req.body.Message).ok
  /\ raised.status = 400
  /\ NoSideEffect

\* C9: at most one outbound GET per request, and a GET only for requests
\* whose message-type header is SubscriptionConfirmation: a request whose
\* header is Notification never causes one, whatever its body.
C9_GetOnlyForHandshakeHeader ==
  /\ Len(gets) <= 1
  /\ (gets # <<>> => req.eventType = "SubscriptionConfirmation")

(***************************************************************************)
(* Properties of checkWorkspaceRefs.                                       *)
(***************************************************************************)
\* every referenced id that exists in st has the tenant org
RefsWithinTenant(st, ids, org) ==
  \A k \in 1..Len(ids) : st[ids[k]].exists => st[ids[k]].organization = org

\* C10: for every non-empty tenant and every reference set,
\* checkWorkspaceRefs succeeds iff every referenced id that exists in the
\* store has a stored organization equal to the expected one; otherwise it
\* fails with DocumentError, status 400.
C10_SucceedsIffSameTenant ==
  [][(refPc = "idle" /\ refPc' = "returned"
        /\ chkArgs'.organization \notin {"", Missing})
       => LET ok == RefsWithinTenant(store, chkArgs'.refIds.ids, chkArgs'.organization)
          IN /\ (chkResult' = NoError) <=> ok
             /\ ~ok => (chkResult'.name = "DocumentError" /\ chkResult'.status = 400)]_vars

C10_Witness ==
  /\ refPc = "returned"
  /\ chkArgs.organization = "org1"
  /\ Len(chkArgs.refIds.ids) = 2
  /\ \E k \in 1..2 : /\ store[chkArgs.refIds.ids[k]].exists
                     /\ store[chkArgs.refIds.ids[k]].organization = "org1"
  /\ \E k \in 1..2 : /\ store[chkArgs.refIds.ids[k]].exists
                     /\ store[chkArgs.refIds.ids[k]].organization = "org2"
  /\ chkResult.name = "DocumentError"
  /\ chkResult.status = 400

CheckStep == refPc = "idle" /\ refPc' = "returned"

\* C11: checkWorkspaceRefs called with an empty or missing tenant fails with
\* the plain Error 'Missing required parameter: organization' (not the
\* DocumentError with status 400), for every reference set, the empty one
\* included, and without any store lookup.
C11_MissingTenantIsPlainError ==
  (refPc = "returned" /\ chkArgs.organization \in {"", Missing})
    => /\ chkResult.name = "Error"
       /\ chkResult.message = "Missing required parameter: organization"
       /\ chkResult.status # 400
       /\ reads = 0
       /\ fetched = {}

C11_Witness ==
  /\ refPc = "returned"
  /\ chkArgs.organization = ""
  /\ chkArgs.refIds.ids = <<>>
  /\ chkResult.name = "Error"
  /\ reads = 0

\* C12: with a non-empty tenant, an empty or absent reference set succeeds
\* without any store lookup, a non-empty one performs exactly one batched
\* read, and the call never changes the store.
C12_OneBatchedReadNoWrite ==
  [][(CheckStep /\ chkArgs'.organization \notin {"", Missing})
       => /\ Len(chkArgs'.refIds.ids) = 0 => (chkResult' = NoError /\ reads' = 0)
          /\ Len(chkArgs'.refIds.ids) > 0 => reads' = 1
          /\ store' = store]_vars

C12_Witness ==
  /\ refPc = "returned"
  /\ chkArgs.organization = "org1"
  /\ Len(chkArgs.refIds.ids) = 2
  /\ chkArgs.refIds.ids[1] # chkArgs.refIds.ids[2]
  /\ reads = 1
  /\ Cardinality(fetched) = 2

\* C13: referenced ids without a document never make the check fail: a
\* reference set made only of such ids succeeds (for a non-empty tenant), and
\* appending such an id to the reference set leaves the outcome as it is.
C13_DanglingRefsIgnored ==
  [][CheckStep
       => LET ids == chkArgs'.refIds.ids
              org == chkArgs'.organization
          IN /\ (org \notin {"", Missing} /\ \A k \in 1..Len(ids) : ~store[ids[k]].exists)
                  => chkResult' = NoError
             /\ \A x \in Ids :
                  ~store[x].exists
                    => checkWorkspaceRefs(store, [given |-> TRUE, ids |-> Append(ids, x)], org).result
                         = chkResult']_vars

C13_Witness ==
  /\ refPc = "returned"
  /\ chkArgs.organization = "org1"
  /\ Len(chkArgs.refIds.ids) = 2
  /\ \E k \in 1..2 : ~store[chkArgs.refIds.ids[k]].exists
  /\ \E k \in 1..2 : /\ store[chkArgs.refIds.ids[k]].exists
                     /\ store[chkArgs.refIds.ids[k]].organization = "org1"
  /\ chkResult = NoError

(***************************************************************************)
(* Properties of the object store gateway.                                 *)
(***************************************************************************)
ProbeStep == s3Pc = "idle" /\ s3Pc' = "returned" /\ s3Result'.op = "s3KeyExists"
BackendFailedOtherwise(r) == ~r.backend.ok /\ r.backend.code # "NotFound"

\* C14: when the backend upload fails, s3StreamUpload fails with UploadError
\* whose message carries the backend's message, returns no Storage Event, and
\* has called the backend upload exactly once.
C14_UploadFailure ==
  (s3Pc = "returned" /\ s3Result.op = "s3StreamUpload" /\ ~s3Result.backend.ok)
    => /\ s3Result.thrown.name = "UploadError"
       /\ s3Result.thrown.message = "Failed to upload file to S3."
       /\ s3Result.thrown.detail = s3Result.backend.message
       /\ ~s3Result.value.defined
       /\ s3Result.calls = 1

C14_Witness ==
  /\ s3Pc = "returned"
  /\ s3Result.op = "s3StreamUpload"
  /\ s3Result.backend.code = "NetworkingError"
  /\ s3Result.thrown.detail = "socket hang up"
  /\ ~s3Result.value.defined

\* C15: s3KeyExists returns an absent result without raising when the object
\* does not exist (backend error code NotFound), raises UploadError for every
\* other backend error, and for an object that is found returns a Storage
\* Event with the requested key and bucket and the stored entity tag and
\* metadata.
C15_ProbeOutcomes ==
  [][ProbeStep
       => LET r == s3Result'
              o == objects[<<r.config.Bucket, r.config.Key>>]
          IN /\ (~o.exists /\ r.backend \notin BackendFailures) => r.backend.code = "NotFound"
             /\ r.backend.code = "NotFound"
                  => (r.thrown = NoS3Error /\ ~r.value.defined)
             /\ BackendFailedOtherwise(r)
                  => (r.thrown.name = "UploadError" /\ ~r.value.defined)
             /\ r.backend.ok
                  => /\ r.thrown = NoS3Error
                     /\ r.value.defined
                     /\ r.value.key = r.config.Key
                     /\ r.value.bucket = r.config.Bucket
                     /\ r.value.etag = o.etag
                     /\ r.value.metadata = o.metadata]_vars

C15_Witness ==
  /\ s3Pc = "returned"
  /\ s3Result.op = "s3KeyExists"
  /\ s3Result.backend.code = "NotFound"
  /\ s3Result.thrown = NoS3Error
  /\ ~s3Result.value.defined
  /\ objects[<<S3_ASSETS_BUCKET, <<"a", "x">> >>].exists
  /\ s3Result.config.Key = <<"b">>

\* C16: s3KeyExists writes a log entry at error severity only when the backend
\* failed with something other than not-found; a key that does not exist
\* produces none.
C16_NoErrorLogOnNotFound ==
  (s3Pc = "returned" /\ s3Result.op = "s3KeyExists"
     /\ \E i \in 1..Len(s3Result.log) : s3Result.log[i] = "error")
    => BackendFailedOtherwise(s3Result)

\* C17: after an upload to key K of bucket B completed, a probe of (K, B)
\* whose backend call does not fail returns a Storage Event whose key, bucket
\* and URL (endpoint joined with bucket and key) and entity tag equal those
\* the last completed upload to (K, B) returned, whatever uploads are still in
\* flight.
C17_RoundTrip ==
  [][ProbeStep
       => LET r == s3Result'
              last == lastUploaded[<<r.config.Bucket, r.config.Key>>]
          IN (last.defined /\ r.backend \notin BackendFailures)
               => /\ r.value.defined
                  /\ r.value.key = last.key
                  /\ r.value.bucket = last.bucket
                  /\ r.value.storageUrl = last.storageUrl
                  /\ r.value.storageUrl = <<S3_ENDPOINT_URL, r.config.Bucket>> \o r.config.Key
                  /\ r.value.etag = last.etag]_vars

C17_Witness ==
  /\ s3Pc = "returned"
  /\ s3Result.op = "s3KeyExists"
  /\ s3Result.value.defined
  /\ s3Result.value.etag = "etag-c2"
  /\ s3Result.value.storageUrl = <<S3_ENDPOINT_URL, "other", "a", "x">>
  /\ lastUploaded[<<"other", <<"a", "x">> >>].etag = "etag-c2"
  /\ \E u \in Uploaders : /\ uploads[u].busy
                          /\ uploads[u].config.Bucket = "other"
                          /\ uploads[u].config.Key = <<"a", "x">>
                          /\ uploads[u].config.Body = "c1"

PolicyStep == lcPc = "idle" /\ lcPc' = "returned"
\* the prefix argument is a string or a list of strings only
ValidPrefix(x) ==
  \/ x.kind = "string"
  \/ x.kind = "array" /\ \A i \in 1..Len(x.items) : x.items[i].isString
\* the prefixes the argument stands for
PrefixesOf(x) ==
  IF x.kind = "string" THEN <<x.s>> ELSE [i \in 1..Len(x.items) |-> x.items[i].v]

\* C18: createLifecyclePolicy called with a prefix that is neither a string
\* nor a list of strings only fails with S3Error, has made no backend call and
\* has left every lifecycle configuration as it was.
C18_BadPrefixRejected ==
  [][(PolicyStep /\ ~ValidPrefix(lcResult'.prefix))
       => /\ lcResult'.thrown.name = "S3Error"
          /\ lcResult'.returned = "none"
          /\ lcResult'.calls = 0
          /\ lifecycle' = lifecycle]_vars

C18_Witness ==
  /\ lcPc = "returned"
  /\ lcResult.prefix.kind = "array"
  /\ Len(lcResult.prefix.items) = 2
  /\ lcResult.prefix.items[1].isString
  /\ ~lcResult.prefix.items[2].isString
  /\ lcResult.thrown.name = "S3Error"
  /\ lcResult.calls = 0

\* C19: after a successful createLifecyclePolicy(prefixes, bucket, days) the
\* bucket's lifecycle configuration is exactly one enabled expiration rule per
\* given prefix, each with the given number of days (1 when left out), and
\* nothing of what it held before; the other buckets' configurations are
\* unchanged.
C19_PolicyReplaces ==
  [][(PolicyStep /\ lcResult'.returned = "true")
       => LET r == lcResult'
              b == IF r.bucket = Missing THEN S3_ASSETS_BUCKET ELSE r.bucket
              ps == PrefixesOf(r.prefix)
              d == IF r.days.given THEN r.days.days ELSE 1
          IN /\ Len(lifecycle'[b]) = Len(ps)
             /\ \A i \in 1..Len(ps) :
                  /\ lifecycle'[b][i].Filter.Prefix = ps[i]
                  /\ lifecycle'[b][i].Expiration.Days = d
                  /\ lifecycle'[b][i].Status = "Enabled"
             /\ \A ob \in Buckets \ {b} : lifecycle'[ob] = lifecycle[ob]]_vars

C19_Witness ==
  /\ lcPc = "returned"
  /\ lcResult.returned = "true"
  /\ lcResult.prefix.kind = "array"
  /\ Len(lcResult.prefix.items) = 2
  /\ lcResult.bucket = Missing
  /\ ~lcResult.days.given
  /\ Len(lifecycle[S3_ASSETS_BUCKET]) = 2
  /\ lifecycle[S3_ASSETS_BUCKET][1].Expiration.Days = 1
  /\ Len(lifecycle["other"]) = 1
  /\ lifecycle["other"][1].Expiration.Days = 7

\* C20: with a valid prefix createLifecyclePolicy never raises: it returns
\* true exactly when the backend call succeeded and false when it failed.
C20_PolicyNeverRaises ==
  (lcPc = "returned" /\ ValidPrefix(lcResult.prefix))
    => /\ lcResult.thrown = NoS3Error
       /\ lcResult.calls = 1
       /\ (lcResult.returned = "true") <=> lcResult.backend.ok
       /\ (lcResult.returned = "false") <=> ~lcResult.backend.ok

C20_Witness ==
  /\ lcPc = "returned"
  /\ ValidPrefix(lcResult.prefix)
  /\ ~lcResult.backend.ok
  /\ lcResult.returned = "false"
  /\ lcResult.thrown = NoS3Error
  /\ lifecycle["other"] # <<>>

(***************************************************************************)
(* Outcome of a run of handleSNSMessage.                                   *)
(***************************************************************************)
\* the number of outcomes the finished run has had
Outcomes ==
  (IF raised # NoError THEN 1 ELSE 0)
    + (IF response.sent THEN 1 ELSE 0)
    + (IF nextCalls > 0 THEN 1 ELSE 0)

\* C22: every finished invocation of handleSNSMessage has had exactly one
\* outcome: it raised an error, or sent a response, or called next(); in
\* particular a request that passes the header checks and has a body never
\* finishes with none of the three.
C22_ExactlyOneOutcome ==
  pc = "done" => (Outcomes = 1 /\ nextCalls <= 1)

(***************************************************************************)
(* Properties of the guarded write path.                                   *)
(***************************************************************************)
\* C21: when every document write is guarded by checkWorkspaceRefs before it
\* is persisted and tenants are never reassigned, then after any sequence of
\* document creations and guarded writes every persisted reference whose
\* target exists points to a target of the tenant of its source.
C21_NoCrossTenantReference ==
  \A i \in Ids :
    store[i].exists
      => \A t \in refsOf[i] :
           store[t].exists => store[t].organization = store[i].organization

====
